---- MODULE Spec2Model ----
(***************************************************************************)
(* Query documents shaped like MongoDB filters, and the three operations    *)
(* of the repository on them: omit, removeFieldClausesFromQuery (exported   *)
(* as removeFieldReferences) and addOrClause.                               *)
(*                                                                          *)
(* A document is a function from its keys (strings) to its values.  The     *)
(* value of a field key is an opaque scalar; the value of "$or" / "$and"    *)
(* is a sequence of documents.  Key order is not modelled: the tests        *)
(* compare with toEqual, which ignores it.                                  *)
(***************************************************************************)
EXTENDS Integers, Sequences, FiniteSets, TLC

VARIABLES
  pc,         \* which call has been made: "start", "omitted", "removed", "removedTwice", "added"
  query,      \* the document handed to the last (or next) call
  fieldName,  \* removeFieldClausesFromQuery's fieldName
  maxDepth,   \* removeFieldClausesFromQuery's maxDepth, after the default is applied
  fields,     \* omit's list of keys
  orClause,   \* addOrClause's orClause of the last call
  result,     \* what the last call returned
  again,      \* what the second removal, applied to result, returned
  orig,       \* the query before the first addOrClause
  added       \* the clauses handed to addOrClause so far, in order

vars == <<pc, query, fieldName, maxDepth, fields, orClause, result, again, orig, added>>

OR == "$or"
AND == "$and"

\* {} : the object with no keys
EmptyDoc == [k \in {} |-> 0]

\* Object.keys(q)
Keys(q) == DOMAIN q

-----------------------------------------------------------------------------
(* The code *)

\* The destructuring pattern [field, ...nextFields] applied to a list: of an
\* empty list it binds field to undefined, and the computed key [undefined]
\* is the property key "undefined".
FirstField(list) == IF Len(list) = 0 THEN "undefined" ELSE Head(list)

NextFields(list) == IF Len(list) = 0 THEN <<>> ELSE Tail(list)

RECURSIVE omit(_, _)
omit(obj, list) ==
  LET field == FirstField(list)
      nextFields == NextFields(list)
      rest == [k \in Keys(obj) \ {field} |-> obj[k]]
  IN  IF Len(nextFields) > 0 THEN omit(rest, nextFields) ELSE rest

\* (doc.$or || []) : the sequence under the key, or the empty one
SeqAt(doc, key) == IF key \in Keys(doc) THEN doc[key] ELSE <<>>

\* .filter(q => Object.keys(q).length > 0)
FilterNonEmpty(docs) == SelectSeq(docs, LAMBDA q : Cardinality(Keys(q)) > 0)

\* mutant: list.length > 1
ClauseIfSeveral(key, list) == IF Len(list) > 1 THEN key :> list ELSE EmptyDoc

\* ...(list.length > 0 ? {[key]: list} : {})
ClauseIfAny(key, list) == IF Len(list) > 0 THEN key :> list ELSE EmptyDoc

\* mutant: the keys of a winning
SpreadFirstWins(a, b) == a @@ b

\* {...a, ...b} : the keys of both, those of b winning
Spread(a, b) == b @@ a

RECURSIVE removeFieldClausesFromQuery(_, _, _)

\* mutant: the emptied sub-queries are not filtered out
removeKeepingEmpty(q, name, depth) ==
  IF depth <= 0
  THEN q
  ELSE
    LET filteredTopLevel == omit(q, <<name>>)
        mapped(key) ==
          [i \in 1..Len(SeqAt(filteredTopLevel, key)) |->
             removeFieldClausesFromQuery(SeqAt(filteredTopLevel, key)[i], name, depth - 1)]
        newOr == mapped(OR)
        newAnd == mapped(AND)
    IN  Spread(Spread(omit(filteredTopLevel, <<OR, AND>>), ClauseIfAny(OR, newOr)),
               ClauseIfAny(AND, newAnd))

\* mutant: .filter before .map
removeFilteringFirst(q, name, depth) ==
  IF depth <= 0
  THEN q
  ELSE
    LET filteredTopLevel == omit(q, <<name>>)
        mapped(key) ==
          LET kept == FilterNonEmpty(SeqAt(filteredTopLevel, key))
          IN  [i \in 1..Len(kept) |-> removeFieldClausesFromQuery(kept[i], name, depth - 1)]
        newOr == mapped(OR)
        newAnd == mapped(AND)
    IN  Spread(Spread(omit(filteredTopLevel, <<OR, AND>>), ClauseIfAny(OR, newOr)),
               ClauseIfAny(AND, newAnd))

\* mutant: the "$and" sub-queries are filtered but not recursed into
removeNotInAnd(q, name, depth) ==
  IF depth <= 0
  THEN q
  ELSE
    LET filteredTopLevel == omit(q, <<name>>)
        mapped(key) ==
          [i \in 1..Len(SeqAt(filteredTopLevel, key)) |->
             removeFieldClausesFromQuery(SeqAt(filteredTopLevel, key)[i], name, depth - 1)]
        newOr == FilterNonEmpty(mapped(OR))
        newAnd == FilterNonEmpty(SeqAt(filteredTopLevel, AND))
    IN  Spread(Spread(omit(filteredTopLevel, <<OR, AND>>), ClauseIfAny(OR, newOr)),
               ClauseIfAny(AND, newAnd))

\* mutant: the guard is maxDepth < 0
removeGuardBelowZero(q, name, depth) ==
  IF depth < 0
  THEN q
  ELSE
    LET filteredTopLevel == omit(q, <<name>>)
        mapped(key) ==
          [i \in 1..Len(SeqAt(filteredTopLevel, key)) |->
             removeFieldClausesFromQuery(SeqAt(filteredTopLevel, key)[i], name, depth - 1)]
        newOr == FilterNonEmpty(mapped(OR))
        newAnd == FilterNonEmpty(mapped(AND))
    IN  Spread(Spread(omit(filteredTopLevel, <<OR, AND>>), ClauseIfAny(OR, newOr)),
               ClauseIfAny(AND, newAnd))

removeFieldClausesFromQuery(q, name, depth) ==
  IF depth <= 0
  THEN q
  ELSE
    LET filteredTopLevel == omit(q, <<name>>)
        mapped(key) ==
          [i \in 1..Len(SeqAt(filteredTopLevel, key)) |->
             removeFieldClausesFromQuery(SeqAt(filteredTopLevel, key)[i], name, depth - 1)]
        newOr == FilterNonEmpty(mapped(OR))
        newAnd == FilterNonEmpty(mapped(AND))
    IN  Spread(Spread(omit(filteredTopLevel, <<OR, AND>>), ClauseIfAny(OR, newOr)),
               ClauseIfAny(AND, newAnd))

\* maxDepth = 5 : the default of the third parameter
DefaultMaxDepth == 5

\* if ($or), if (queryRest.$and) : an array, empty or not, is truthy, so for a
\* document whose "$or" / "$and" are sequences the test is the key's presence
Has(doc, key) == key \in Keys(doc)

\* mutant: the query's own "$or" is not carried into "$and"
addOrClauseLosingOr(q, clause) ==
  LET queryRest == [k \in Keys(q) \ {OR} |-> q[k]]
  IN  IF Has(q, OR)
      THEN Spread(queryRest, AND :> (SeqAt(queryRest, AND) \o <<clause>>))
      ELSE IF Has(queryRest, AND)
           THEN Spread(queryRest, AND :> (queryRest[AND] \o <<clause>>))
           ELSE Spread(q, clause)

addOrClause(q, clause) ==
  LET queryRest == [k \in Keys(q) \ {OR} |-> q[k]]
  IN  IF Has(q, OR)
      THEN Spread(queryRest, AND :> (SeqAt(queryRest, AND) \o <<OR :> q[OR]>> \o <<clause>>))
      ELSE IF Has(queryRest, AND)
           THEN Spread(queryRest, AND :> (queryRest[AND] \o <<clause>>))
           ELSE Spread(q, clause)

-----------------------------------------------------------------------------
(* Bounded sets of inputs *)

\* the documents handed to removal are all those of at most this size (a key
\* counts 1, an element of a sequence counts 1 more than its document)
MaxSize == 7

\* the documents handed to removal also include small ones wrapped in up to
\* this many levels of "$or" / "$and"
MaxWrap == 6

\* the wrapped documents are those of at most this size
MaxWrapped == 2

\* the explicit maxDepth arguments range over -NegDepths..MaxDepthArg
NegDepths == 1

MaxDepthArg == 3

FieldDocsOver(keys, values) == UNION {[ks -> values] : ks \in SUBSET keys}

\* an optional sequence is <<>> (key absent) or <<s>> (key present, mapped to s)
WithClause(doc, key, opt) == IF opt = <<>> THEN doc ELSE Spread(doc, key :> opt[1])

RECURSIVE DocsOfSize(_, _), SeqsOfCost(_, _)
DocsOfSize(n, fieldDocs) ==
  LET OptOfCost(w) == IF w = 0 THEN {<<>>} ELSE {<<s>> : s \in SeqsOfCost(w - 1, fieldDocs)}
  IN  UNION { UNION { { WithClause(WithClause(fd, OR, o), AND, a) :
                          fd \in {d \in fieldDocs : Cardinality(Keys(d)) = n - j - k},
                          o \in OptOfCost(j), a \in OptOfCost(k) }
                      : k \in 0..(n - j) }
              : j \in 0..n }

SeqsOfCost(c, fieldDocs) ==
  IF c = 0
  THEN {<<>>}
  ELSE UNION { { <<d>> \o s : d \in DocsOfSize(i - 1, fieldDocs), s \in SeqsOfCost(c - i, fieldDocs) }
               : i \in 1..c }

DocsUpTo(n, fieldDocs) == UNION {DocsOfSize(i, fieldDocs) : i \in 0..n}

RemovalFieldDocs == FieldDocsOver({"hello", "otherField"}, {1})

\* d under k levels, alternately {$or: [d]} and {hello: 1, $and: [d, {otherField: 1}]}
RECURSIVE Wrap(_, _)
Wrap(d, k) ==
  IF k = 0 THEN d
  ELSE IF k % 2 = 1
       THEN OR :> <<Wrap(d, k - 1)>>
       ELSE Spread("hello" :> 1, AND :> <<Wrap(d, k - 1), "otherField" :> 1>>)

RemovalQueries ==
  DocsUpTo(MaxSize, RemovalFieldDocs)
    \cup {Wrap(d, k) : d \in DocsUpTo(MaxWrapped, RemovalFieldDocs), k \in 1..MaxWrap}

FieldNames == {"hello", OR}

DepthArgs == ((0 - NegDepths)..MaxDepthArg) \cup {DefaultMaxDepth}

-----------------------------------------------------------------------------
(* Removal: one call, then a second call on its result *)

InitRemove ==
  /\ pc = "start"
  /\ query \in RemovalQueries
  /\ fieldName \in FieldNames
  /\ maxDepth \in DepthArgs
  /\ fields = <<>>
  /\ orClause = EmptyDoc
  /\ result = EmptyDoc
  /\ again = EmptyDoc
  /\ orig = EmptyDoc
  /\ added = <<>>

Remove ==
  /\ pc = "start"
  /\ result' = removeFieldClausesFromQuery(query, fieldName, maxDepth)
  /\ pc' = "removed"
  /\ UNCHANGED <<query, fieldName, maxDepth, fields, orClause, again, orig, added>>

RemoveAgain ==
  /\ pc = "removed"
  /\ again' = removeFieldClausesFromQuery(result, fieldName, maxDepth)
  /\ pc' = "removedTwice"
  /\ UNCHANGED <<query, fieldName, maxDepth, fields, orClause, result, orig, added>>

NextRemove == Remove \/ RemoveAgain

SpecRemove == InitRemove /\ [][NextRemove]_vars

-----------------------------------------------------------------------------
(* What the claims about removal speak of *)

ClauseKeys(doc) == {OR, AND} \cap Keys(doc)

\* no document at a nesting level below `levels` (the top level is level 0)
\* maps "$or" / "$and" to an empty sequence or has an empty document in one
RECURSIVE ValidWithin(_, _)
ValidWithin(doc, levels) ==
  \/ levels <= 0
  \/ \A key \in ClauseKeys(doc) :
        /\ Len(doc[key]) > 0
        /\ \A i \in 1..Len(doc[key]) :
              /\ Keys(doc[key][i]) # {}
              /\ ValidWithin(doc[key][i], levels - 1)

\* the deepest nesting level of a document inside doc
RECURSIVE NestDepth(_)
NestDepth(doc) ==
  LET below == UNION {{NestDepth(doc[key][i]) + 1 : i \in 1..Len(doc[key])} : key \in ClauseKeys(doc)}
  IN  IF below = {} THEN 0 ELSE CHOOSE m \in below : \A n \in below : n <= m

\* no empty "$or" / "$and" and no empty element anywhere
Valid(doc) == ValidWithin(doc, NestDepth(doc) + 1)

\* name is a key of a document at a nesting level below `levels`
RECURSIVE Occurs(_, _, _)
Occurs(doc, name, levels) ==
  /\ levels > 0
  /\ \/ name \in Keys(doc)
     \/ \E key \in ClauseKeys(doc) : \E i \in 1..Len(doc[key]) : Occurs(doc[key][i], name, levels - 1)

\* C1, as claimed: for every non-negative maxDepth the result of removal has
\* no empty "$or" / "$and" and no empty document in one, at any level.
C1_NoInvalidShape == (pc = "removed" /\ maxDepth >= 0) => Valid(result)

\* C1, amended: the result has none at the levels below maxDepth, which are
\* the ones removal processes; it has none at all when the query has none,
\* and when the query nests less than maxDepth deep.
C1_NoInvalidShapeProcessed ==
  pc = "removed" =>
    /\ ValidWithin(result, maxDepth)
    /\ Valid(query) => Valid(result)
    /\ NestDepth(query) < maxDepth => Valid(result)

\* an "$or" whose sub-queries all became empty has been removed from a valid query
C1_Witness ==
  /\ pc = "removed"
  /\ maxDepth > 0
  /\ fieldName = "hello"
  /\ Valid(query)
  /\ Has(query, OR)
  /\ ~Has(result, OR)

\* C4: removing again, with the same maxDepth, changes nothing.
C4_Idempotent == pc = "removedTwice" => again = result

\* the default depth, a query nested deeper than it, and a first removal that removed something
C4_Witness ==
  /\ pc = "removedTwice"
  /\ maxDepth = DefaultMaxDepth
  /\ NestDepth(query) > maxDepth
  /\ result # query

\* C5: with maxDepth > 0 the result has no key fieldName at the levels
\* 0..maxDepth-1.
C5_FieldRemoved == (pc = "removed" /\ maxDepth > 0) => ~Occurs(result, fieldName, maxDepth)

\* the field was there below the top level, within the levels processed
C5_Witness ==
  /\ pc = "removed"
  /\ maxDepth > 1
  /\ fieldName \notin Keys(query)
  /\ Occurs(query, fieldName, maxDepth)

\* C6, as claimed: when fieldName does not occur within maxDepth levels of
\* the query, the result equals the query.
C6_AbsentIsNoOp ==
  (pc = "removed" /\ ~Occurs(query, fieldName, maxDepth)) => result = query

\* C6, amended: ... and the query has, at those levels, no empty "$or" /
\* "$and" and no empty document in one, the result equals the query.
C6_AbsentIsNoOpOnValid ==
  (pc = "removed" /\ ~Occurs(query, fieldName, maxDepth) /\ ValidWithin(query, maxDepth))
    => result = query

\* a query with clauses, processed, the field only deeper than maxDepth
C6_Witness ==
  /\ pc = "removed"
  /\ maxDepth > 0
  /\ ~Occurs(query, fieldName, maxDepth)
  /\ Occurs(query, fieldName, NestDepth(query) + 1)
  /\ ValidWithin(query, maxDepth)
  /\ result = query

\* C8: with maxDepth <= 0 the query is returned as it is.
C8_Passthrough == (pc = "removed" /\ maxDepth <= 0) => result = query

\* maxDepth 0, the field at the top level, an empty clause: all still there
C8_Witness ==
  /\ pc = "removed"
  /\ maxDepth = 0
  /\ fieldName = "hello"
  /\ fieldName \in Keys(query)
  /\ ~Valid(query)
  /\ fieldName \in Keys(result)

-----------------------------------------------------------------------------
(* addOrClause: called again and again on its own result *)

\* the queries handed to the first addOrClause are all those of at most this size
MaxAddSize == 5

\* at most this many calls in a row
MaxAdds == 3

AddQueries == DocsUpTo(MaxAddSize, FieldDocsOver({"foo"}, {1}))

\* {$or: [{myField: 'value'}, {myField: null}]} of the tests, and its like
OrOnlyClauses ==
  { OR :> <<[myField |-> 1]>>,
    OR :> <<[myField |-> 2]>>,
    OR :> <<[myField |-> 1], [myField |-> 2]>> }

\* clauses that are more, or less, than one non-empty "$or"
OtherClauses ==
  { EmptyDoc,
    OR :> <<>>,
    [foo |-> 2],
    Spread([foo |-> 2], OR :> <<[myField |-> 1]>>) }

Clauses == OrOnlyClauses \cup OtherClauses

InitAdd ==
  /\ pc = "start"
  /\ query \in AddQueries
  /\ orig = query
  /\ result = query
  /\ orClause = EmptyDoc
  /\ added = <<>>
  /\ fieldName = "hello"
  /\ maxDepth = DefaultMaxDepth
  /\ fields = <<>>
  /\ again = EmptyDoc

\* result = addOrClause(result, c)
AddOrClause(c) ==
  /\ Len(added) < MaxAdds
  /\ query' = result
  /\ orClause' = c
  /\ result' = addOrClause(result, c)
  /\ added' = Append(added, c)
  /\ pc' = "added"
  /\ UNCHANGED <<fieldName, maxDepth, fields, again, orig>>

NextAdd == \E c \in Clauses : AddOrClause(c)

SpecAdd == InitAdd /\ [][NextAdd]_vars

-----------------------------------------------------------------------------
(* What the claims about addOrClause speak of *)

\* a record is the set of the field predicates <<key, value>> it satisfies
Records == SUBSET ({"foo", "myField"} \X {1, 2})

\* the usual semantics: the keys of a document are ANDed, "$or" holds when
\* some element does, "$and" when every element does
RECURSIVE Matches(_, _)
Matches(rec, doc) ==
  \A k \in Keys(doc) :
    IF k = OR THEN \E i \in 1..Len(doc[k]) : Matches(rec, doc[k][i])
    ELSE IF k = AND THEN \A i \in 1..Len(doc[k]) : Matches(rec, doc[k][i])
    ELSE <<k, doc[k]>> \in rec

\* a document whose only key is "$or", mapped to a non-empty sequence
IsOrOnly(c) == Keys(c) = {OR} /\ Len(c[OR]) > 0

\* C2: when orClause has a "$or" key, a record matches the result exactly
\* when it matches the query and matches orClause.
C2_Equivalent ==
  (pc = "added" /\ Has(orClause, OR)) =>
    \A rec \in Records : Matches(rec, result) <=> (Matches(rec, query) /\ Matches(rec, orClause))

\* C3: the result is that of the three cases, which branch on the query alone.
C3_ThreeCases ==
  pc = "added" =>
    LET n == Len(SeqAt(query, AND))
    IN  IF OR \in Keys(query)
        THEN /\ Keys(result) = (Keys(query) \ {OR}) \cup {AND}
             /\ Len(result[AND]) = n + 2
             /\ \A i \in 1..n : result[AND][i] = query[AND][i]
             /\ Keys(result[AND][n + 1]) = {OR}
             /\ result[AND][n + 1][OR] = query[OR]
             /\ result[AND][n + 2] = orClause
             /\ \A k \in Keys(query) \ {OR, AND} : result[k] = query[k]
        ELSE IF AND \in Keys(query)
        THEN /\ Keys(result) = Keys(query)
             /\ Len(result[AND]) = n + 1
             /\ \A i \in 1..n : result[AND][i] = query[AND][i]
             /\ result[AND][n + 1] = orClause
             /\ \A k \in Keys(query) \ {AND} : result[k] = query[k]
        ELSE /\ Keys(result) = Keys(query) \cup Keys(orClause)
             /\ \A k \in Keys(orClause) : result[k] = orClause[k]
             /\ \A k \in Keys(query) \ Keys(orClause) : result[k] = query[k]

\* the first case, with entries already in "$and" and a field beside them
C3_Witness ==
  /\ pc = "added"
  /\ Has(query, OR)
  /\ Len(query[OR]) > 0
  /\ Keys(orClause) = {"foo", OR}
  /\ Len(SeqAt(query, AND)) > 0
  /\ "foo" \in Keys(query)
  /\ "foo" \in Keys(result)
  /\ Len(result[AND]) = Len(query[AND]) + 2

\* C7: the result of addOrClause has no empty "$or" / "$and" and no empty
\* document in one, whatever the two documents.
C7_NoInvalidShape == pc = "added" => Valid(result)

\* C10: over repeated additions of clauses that are one non-empty "$or"
\* each, (a) the fields of the first query stay, (b) "$and" holds the first
\* query's "$and" entries, its "$or" wrapped, then the clauses in the order
\* added, except that after one addition to a query with neither the clause
\* is the top-level "$or", and (c) from the second addition on there is no
\* top-level "$or".
C10_NoClauseLost ==
  (pc = "added" /\ \A i \in 1..Len(added) : IsOrOnly(added[i])) =>
    LET carried == SeqAt(orig, AND) \o (IF Has(orig, OR) THEN <<OR :> orig[OR]>> ELSE <<>>)
        neither == ~Has(orig, OR) /\ ~Has(orig, AND)
    IN  /\ \A k \in Keys(orig) \ {OR, AND} : k \in Keys(result) /\ result[k] = orig[k]
        /\ IF neither /\ Len(added) = 1
           THEN /\ Has(result, OR)
                /\ result[OR] = added[1][OR]
                /\ ~Has(result, AND)
           ELSE /\ Has(result, AND)
                /\ result[AND] = carried \o added
        /\ Len(added) >= 2 => ~Has(result, OR)

\* three different clauses added to a query that had a field, "$and" entries and an "$or"
C10_Witness ==
  /\ pc = "added"
  /\ Len(added) = 3
  /\ \A i \in 1..3 : IsOrOnly(added[i])
  /\ Cardinality({added[i] : i \in 1..3}) = 3
  /\ Has(orig, OR)
  /\ Len(orig[OR]) > 0
  /\ Len(SeqAt(orig, AND)) > 0
  /\ "foo" \in Keys(orig)
  /\ Len(result[AND]) = Len(orig[AND]) + 4

-----------------------------------------------------------------------------
(* omit: one call *)

\* the lists of keys handed to omit have at most this many entries
MaxFields == 2

OmitKeys == {"hello", "undefined", OR, "absent"}

OmitDocs == DocsUpTo(MaxWrapped, FieldDocsOver({"hello", "undefined"}, {1}))

KeyLists == UNION {[1..n -> OmitKeys] : n \in 0..MaxFields}

InitOmit ==
  /\ pc = "start"
  /\ query \in OmitDocs
  /\ fields \in KeyLists
  /\ result = EmptyDoc
  /\ fieldName = "hello"
  /\ maxDepth = DefaultMaxDepth
  /\ orClause = EmptyDoc
  /\ again = EmptyDoc
  /\ orig = EmptyDoc
  /\ added = <<>>

Omit ==
  /\ pc = "start"
  /\ result' = omit(query, fields)
  /\ pc' = "omitted"
  /\ UNCHANGED <<query, fieldName, maxDepth, fields, orClause, again, orig, added>>

NextOmit == Omit

SpecOmit == InitOmit /\ [][NextOmit]_vars

\* C9: omit returns the keys of the document that are not in the list, each
\* with its value; an empty list removes none.
C9_OmitExact ==
  pc = "omitted" =>
    /\ Keys(result) = Keys(query) \ {fields[i] : i \in 1..Len(fields)}
    /\ \A k \in Keys(result) : result[k] = query[k]

====
